---- MODULE Spec2Model ----
(***************************************************************************)
(* A model of grr_response_server/threadpool.py: the ThreadPool class, its *)
(* _WorkerThread workers and the Queue.Queue that connects them.           *)
(*                                                                         *)
(* Threads are the callers (which run Start, Stop, Join and AddTask) and   *)
(* the workers (which run _WorkerThread.run).  Every thread has a program  *)
(* counter; a step of the model is one piece of a method that does not     *)
(* wait: a queue operation, the start of a thread, the entry of a started  *)
(* worker in the maps, the call of a task's body, its end.  A thread that  *)
(* needs the pool lock waits at a program counter whose action is guarded  *)
(* by the lock being free; the lock is held from there to the step that    *)
(* leaves the method.                                                      *)
(***************************************************************************)
EXTENDS Integers, Sequences, FiniteSets

\* ------------------------------------------------------------------ bounds
\* Largest min_threads / max_threads argument given to the constructor.
MaxThreads == 2
\* Number of threads calling Start, Stop, Join and AddTask.
NumCallers == 2
\* Number of AddTask calls in a behaviour (each submits a fresh task).
MaxTasks == 3
\* Number of worker threads that can be spawned in a behaviour; once they
\* are used up, thread creation fails (as it may at any time).
MaxSpawn == 2
\* Number of pool objects that can be constructed in a behaviour.
MaxPools == 3
\* Largest number of batches one BatchConverter.Convert call submits.
MaxBatches == 2
\* Largest max_threads of a pool under study that is constructed with
\* cpu_check=False.  Without the check CPUUsage() is 0, which is one of the
\* CpuSamples, so a pool without the check takes no step that the same pool
\* with it cannot take; the growth scenario has its own pool without it.
MaxUncheckedThreads == 0

\* ---------------------------------------------------------------- constants
\* STOP_MESSAGE: the queue element that tells a worker to terminate.  Tasks
\* are 1..MaxTasks, so 0 is distinct from every task.
STOP_MESSAGE == 0
\* The CPU percentage at and above which AddTask adds no worker.
CpuLimit == 90
\* max_threads=None in the constructor's arguments.
None == -1
\* The pool lock is free.
NoOwner == 0
\* A thread that holds no task.
NoTask == -1

Callers == 1..NumCallers
WorkerIds == 1..MaxSpawn
TaskIds == 1..MaxTasks
\* Values process.cpu_percent(0) may return (both sides of the limit).
CpuSamples == {0, 89, 90}
\* Pool names: "" is an unnamed pool (no metrics), "p" a named one.
Names == {"", "p"}

VARIABLES
  \* ThreadPool fields
  min_threads, max_threads, cpu_check, name,
  started, queue, unfinished, workers, workers_ro_copy, lock,
  \* _WorkerThread threads: program counter and the message a worker has
  \* dequeued and not begun to process; the number of threads created so far
  wpc, wtask, nextw,
  \* caller threads: program counter, AddTask's task and arguments, and
  \* what AddTask observed when it raised Full
  cpc, ctask, cblocking, cinline, cobs,
  \* Stop's local list of captured workers and the sentinels still to put;
  \* the workers the running Start has still to add
  stop_workers, stop_left, start_left,
  \* what happened to each task, and the task counter
  tasks, nexttask,
  \* stats of a named pool
  task_exceptions, working_time, queueing_time,
  \* history: the last Start failed to spawn;
  \* the tasks that were in the queue when the running Stop was called
  start_failed, stop_snap,
  \* ThreadPool.POOLS and ThreadPool.factory_lock; the pool objects constructed
  \* so far (their configuration, in order of construction); the arguments and
  \* the local "result" of each thread's Factory call; history: the instances
  \* that Factory calls have returned for each name
  POOLS, factory_lock, pools, fargs, fres, returned,
  \* the program each caller runs around its calls: any call at any time
  \* ("free"), or BatchConverter.Convert and how far it has come
  conv

vars == <<min_threads, max_threads, cpu_check, name,
          started, queue, unfinished, workers, workers_ro_copy, lock,
          wpc, wtask, nextw,
          cpc, ctask, cblocking, cinline, cobs,
          stop_workers, stop_left, start_left,
          tasks, nexttask,
          task_exceptions, working_time, queueing_time,
          start_failed, stop_snap,
          POOLS, factory_lock, pools, fargs, fres, returned, conv>>

poolVars == <<min_threads, max_threads, cpu_check, name>>
workerVars == <<wpc, wtask, nextw>>
callerVars == <<cpc, ctask, cblocking, cinline, cobs>>
stopVars == <<stop_workers, stop_left>>
statVars == <<task_exceptions, working_time, queueing_time>>
histVars == <<start_failed, stop_snap>>
regVars == <<POOLS, factory_lock, pools, fargs, fres, returned>>
\* Everything of the pool under study but its configuration and the callers'
\* program counters.
dynVars == <<started, queue, unfinished, workers, workers_ro_copy, lock,
             workerVars, ctask, cblocking, cinline, cobs, stopVars, start_left,
             tasks, nexttask, statVars, histVars>>

\* ------------------------------------------------------------ ThreadPool.__init__
\* "if max_threads is None or max_threads < min_threads: max_threads = min_threads"
CoerceMax(minT, maxArg) ==
  IF maxArg = None \/ maxArg < minT THEN minT ELSE maxArg

\* A task that was not submitted yet: its outcome, and how often it was put
\* in the queue, run by a worker, run by a caller.
NewTask ==
  [outcome |-> "new", puts |-> 0, wruns |-> 0, cruns |-> 0]

\* What AddTask saw when it last raised Full (nothing yet).
NoObs == [live |-> -1, cpu |-> -1, spawn |-> "none"]

\* The arguments of ThreadPool(...) and of ThreadPool.Factory(...).
PoolArgs ==
  [name : Names, min : 0..MaxThreads, max : {None} \cup (0..MaxThreads),
   cpu : BOOLEAN]

\* The arguments threads give Factory and the constructor after the pool
\* under study exists: every name and min_threads, with either both defaults
\* (max_threads=None, cpu_check=True) or neither.
CallArgs ==
  {a \in PoolArgs : a.max \in {None, MaxThreads} /\ a.cpu = (a.max = None)}

\* A thread that is not in Factory has no arguments.
NoArgs == [name |-> "", min |-> 0, max |-> None, cpu |-> FALSE]

\* The configuration __init__ gives a pool constructed with arguments a.
Config(a) ==
  [name |-> a.name, min_threads |-> a.min,
   max_threads |-> CoerceMax(a.min, a.max), cpu_check |-> a.cpu]

\* The arguments the pool under study is constructed with: every name and
\* every min_threads and max_threads, with the default cpu_check=True; and
\* cpu_check=False for the pools of at most MaxUncheckedThreads threads.
StudyArgs ==
  {a \in PoolArgs : a.cpu \/ Config(a).max_threads <= MaxUncheckedThreads}

\* The pool under study has the configuration cfg; no thread or queue of it
\* has done anything yet.
PoolInitOn(cfg, W, T) ==
  /\ min_threads = cfg.min_threads
  /\ max_threads = cfg.max_threads
  /\ cpu_check = cfg.cpu_check
  /\ name = cfg.name
  /\ started = FALSE
  /\ queue = <<>>
  /\ unfinished = 0
  /\ workers = {}
  /\ workers_ro_copy = {}
  /\ lock = NoOwner
  /\ wpc = [w \in W |-> "unborn"]
  /\ wtask = [w \in W |-> NoTask]
  /\ nextw = 1
  /\ cpc = [c \in Callers |-> "idle"]
  /\ ctask = [c \in Callers |-> NoTask]
  /\ cblocking = [c \in Callers |-> FALSE]
  /\ cinline = [c \in Callers |-> FALSE]
  /\ cobs = [c \in Callers |-> NoObs]
  /\ stop_workers = {}
  /\ stop_left = 0
  /\ start_left = 0
  /\ tasks = [t \in T |-> NewTask]
  /\ nexttask = 1
  /\ task_exceptions = 0
  /\ working_time = 0
  /\ queueing_time = 0
  /\ start_failed = FALSE
  /\ stop_snap = {}

\* The pool under study with the worker and task identifiers of the bounds.
PoolInit(cfg) == PoolInitOn(cfg, WorkerIds, TaskIds)

\* ThreadPool.POOLS = {} and nobody is in Factory.
RegistryInit ==
  /\ POOLS = [n \in Names |-> None]
  /\ factory_lock = NoOwner
  /\ fargs = [c \in Callers |-> NoArgs]
  /\ fres = [c \in Callers |-> None]
  /\ returned = [n \in Names |-> {}]


\* The program of a caller that makes any call at any time.
Free ==
  [stage |-> "free", left |-> 0, size |-> 0, empty |-> FALSE, batches |-> {}]

\* The state after ThreadPool(name, min_threads, max_threads, cpu_check): no
\* worker, an empty queue of capacity max_threads, not started.
Init ==
  /\ \E a \in StudyArgs :
       /\ PoolInit(Config(a))
       /\ pools = <<Config(a)>>
  /\ RegistryInit
  /\ conv = [c \in Callers |-> Free]

\* ------------------------------------------------------- the callers' programs
\* Caller c's program lets it make the call op now: a free caller may call
\* anything, a caller in Convert makes the call its stage names; "Unwind" is
\* the Stop of Convert's finally clause while an exception is on its way out.
MayCall(c, op) ==
  \/ conv[c].stage \in {"free", op}
  \/ conv[c].stage = "Unwind" /\ op = "Stop"

\* "if not values: return" at the top of Convert: without values Convert
\* returns at once, otherwise it goes on to get the pool from Factory.
AfterValuesCheck(c) ==
  [conv EXCEPT ![c].stage = IF conv[c].empty THEN "done" ELSE "Factory"]

\* Convert after "pool.Start()": Start is called before the try block, so an
\* exception it raises leaves Convert without a Stop; otherwise the loop over
\* the batches begins, or, without a batch, the finally clause is next.
AfterStart(c, failed) ==
  IF conv[c].stage # "Start" THEN conv
  ELSE [conv EXCEPT ![c].stage =
          IF failed THEN "raised"
          ELSE IF conv[c].left > 0 THEN "AddTask" ELSE "Stop"]

\* Convert after one "pool.AddTask(target=self.ConvertBatch, args=(batch,),
\* name=..., inline=False)" has returned or raised: the next batch, or the
\* finally clause.  An exception that comes out of AddTask (ConvertBatch
\* raising on the caller) ends the loop: the finally clause is next and the
\* batches left are not submitted.
AfterAddTask(c, raised) ==
  IF conv[c].stage # "AddTask" THEN conv
  ELSE [conv EXCEPT ![c].left = @ - 1,
                    ![c].batches = @ \cup {ctask[c]},
                    ![c].stage = IF raised THEN "Unwind"
                                 ELSE IF conv[c].left > 1 THEN "AddTask"
                                 ELSE "Stop"]

\* Convert calls "pool.Stop()" in its finally clause and returns when Stop
\* returns, or lets the exception out that brought it there.
AfterStop(c) ==
  IF conv[c].stage = "Stop" THEN [conv EXCEPT ![c].stage = "done"]
  ELSE IF conv[c].stage = "Unwind" THEN [conv EXCEPT ![c].stage = "raised"]
  ELSE conv

\* ------------------------------------------------------------------ Queue.Queue
\* A queue created without maxsize, which is never full.
QueueFull_Never == FALSE

\* A faulty bound that lets one message more than maxsize into the queue.
QueueFull_OffByOne == max_threads > 0 /\ Len(queue) > max_threads

\* Queue.Queue(maxsize=max_threads): a maxsize of 0 is an unbounded queue.
QueueFull == max_threads > 0 /\ Len(queue) >= max_threads

\* len(pool): the size of the read-only copy of the worker map.
PoolLen == Cardinality(workers_ro_copy)

\* The pool lock can be taken (no caller holds it across steps).
LockFree == lock = NoOwner

\* Tasks (not sentinels) in a queue.
QueuedTasks(q) == {q[i] : i \in 1..Len(q)} \ {STOP_MESSAGE}

\* ------------------------------------------------------------ _WorkerThread.run
\* "if time.time() - self.started > 600 and self._RemoveFromPool(): return"
\* at the end of the loop body: the clock decides whether the worker is old;
\* an old worker calls _RemoveFromPool, another one starts the loop again.
AgeCheck(w) ==
  \E old \in BOOLEAN :
    wpc' = [wpc EXCEPT ![w] = IF old THEN "rm_age" ELSE "get"]

\* A faulty Queue.get that returns the first message and leaves it in the
\* queue, so that it is handed out again.
Rest_Peek(q) == q

\* Queue.get removes the message it returns: what is left in the queue.
Rest(q) == Tail(q)

\* task = self._queue.get(timeout=60), a message arrived.
WorkerGet(w) ==
  /\ wpc[w] = "get"
  /\ queue # <<>>
  /\ wtask' = [wtask EXCEPT ![w] = Head(queue)]
  /\ queue' = Rest(queue)
  /\ wpc' = [wpc EXCEPT ![w] = "got"]
  /\ UNCHANGED <<poolVars, regVars, conv,
                 started, unfinished, workers, workers_ro_copy, lock,
                 nextw, callerVars, stopVars, start_left, tasks, nexttask,
                 statVars, histVars>>

\* self._queue.get(timeout=60) raises Queue.Empty: the queue is empty when the
\* timeout fires.  The worker goes on to call _RemoveFromPool.
WorkerTimeout(w) ==
  /\ wpc[w] = "get"
  /\ queue = <<>>
  /\ wpc' = [wpc EXCEPT ![w] = "rm_idle"]
  /\ UNCHANGED <<poolVars, regVars, conv,
                 started, queue, unfinished, workers, workers_ro_copy,
                 lock, wtask, nextw, callerVars, stopVars, start_left, tasks,
                 nexttask, statVars, histVars>>

\* "if task == STOP_MESSAGE: return": the worker leaves run() through the
\* finally clause, which calls self._queue.task_done(), and the thread ends.
WorkerStop(w) ==
  /\ wpc[w] = "got"
  /\ wtask[w] = STOP_MESSAGE
  /\ unfinished' = unfinished - 1
  /\ wtask' = [wtask EXCEPT ![w] = NoTask]
  /\ wpc' = [wpc EXCEPT ![w] = "exited"]
  /\ UNCHANGED <<poolVars, regVars, conv,
                 started, queue, workers, workers_ro_copy, lock,
                 nextw, callerVars, stopVars, start_left, tasks, nexttask,
                 statVars, histVars>>

\* The ways the body of a task ends: it returns; it raises an exception that
\* "except Exception" catches and logs; it raises one that is caught but
\* whose str(e), the argument of logging.exception, raises in turn inside
\* the handler, either Queue.Empty ("unloggable_empty") or anything else
\* ("unloggable"); or it raises one that "except Exception" lets through
\* (SystemExit, KeyboardInterrupt, GeneratorExit).
Outcomes ==
  {"returns", "raises", "unloggable", "unloggable_empty", "exits"}

\* The outcomes "except Exception" catches, and those after which an
\* exception leaves ProcessTask.
CaughtOutcomes == {"raises", "unloggable", "unloggable_empty"}
EscapingOutcomes == {"unloggable", "unloggable_empty", "exits"}

\* Where the worker is when the body has ended: at the finally clause of
\* run(), with no exception on its way out ("done"), with Queue.Empty on its
\* way out ("unwind_empty"), or with another exception ("unwind").
AtFinally(outcome) ==
  IF outcome \notin EscapingOutcomes THEN "done"
  ELSE IF outcome = "unloggable_empty" THEN "unwind_empty"
  ELSE "unwind"

\* ProcessTask(target, args, name, queueing_time) on task t, up to the call
\* "target(*args)": a named pool records a queueing_time event, then the body
\* is invoked.
ProcessTask(t) ==
  /\ tasks' = [tasks EXCEPT ![t].wruns = @ + 1]
  /\ queueing_time' = queueing_time + (IF name # "" THEN 1 ELSE 0)

\* "self.ProcessTask(*task)": the worker begins the task it dequeued.  The
\* body then runs on the worker, without any lock, for as long as it likes.
WorkerBegin(w) ==
  /\ wpc[w] = "got"
  /\ wtask[w] # STOP_MESSAGE
  /\ ProcessTask(wtask[w])
  /\ wtask' = [wtask EXCEPT ![w] = NoTask]
  /\ wpc' = [wpc EXCEPT ![w] = "run"]
  /\ UNCHANGED <<poolVars, regVars, conv,
                 started, queue, unfinished, workers, workers_ro_copy, lock,
                 nextw, callerVars, stopVars, start_left, nexttask,
                 task_exceptions, working_time, histVars>>

\* "except Exception as e: if self.pool.name: IncrementCounter(
\* name + '_task_exceptions')": what the end of a body adds to the counter.
Caught(outcome) == IF name # "" /\ outcome \in CaughtOutcomes THEN 1 ELSE 0

\* "if self.pool.name: total_time = ...; RecordEvent(name + '_working_time',
\* total_time)" at the end of ProcessTask: an exception that passes "except
\* Exception", or that is raised inside the handler, leaves ProcessTask
\* before it.
Worked(outcome) ==
  IF name # "" /\ outcome \notin EscapingOutcomes THEN 1 ELSE 0

\* The body of the task worker w runs ends with the given outcome, and
\* ProcessTask goes on to its end, or to the point where an exception leaves
\* it: a caught exception is counted, the working_time event is recorded
\* when ProcessTask gets there.  What is left is the finally clause of run().
WorkerEnd(w, outcome) ==
  /\ wpc[w] = "run"
  /\ task_exceptions' = task_exceptions + Caught(outcome)
  /\ working_time' = working_time + Worked(outcome)
  /\ wpc' = [wpc EXCEPT ![w] = AtFinally(outcome)]
  /\ UNCHANGED <<poolVars, regVars, conv,
                 started, queue, unfinished, workers, workers_ro_copy, lock,
                 wtask, nextw, callerVars, stopVars, start_left, tasks,
                 nexttask, queueing_time, histVars>>

\* The body of a task ends, in one of the ways it can.
WorkerEnds(w) == \E outcome \in Outcomes : WorkerEnd(w, outcome)

\* Where run() goes after ProcessTask returned: the loop goes on (the age
\* check, then the next get).
AfterTask(w) == AgeCheck(w)

\* "finally: self._queue.task_done()" after ProcessTask: then the loop goes
\* on; or Queue.Empty is passing through and "except Queue.Empty:" catches
\* it, so that the worker goes on to call _RemoveFromPool as after a
\* timeout; or another exception is passing through run() and the thread
\* ends, still in the worker maps.
WorkerTaskDone(w) ==
  /\ wpc[w] \in {"done", "unwind_empty", "unwind"}
  /\ unfinished' = unfinished - 1
  /\ IF wpc[w] = "done"
       THEN AfterTask(w)
       ELSE IF wpc[w] = "unwind_empty"
         THEN wpc' = [wpc EXCEPT ![w] = "rm_idle"]
         ELSE wpc' = [wpc EXCEPT ![w] = "died"]
  /\ UNCHANGED <<poolVars, regVars, conv,
                 started, queue, workers, workers_ro_copy, lock,
                 wtask, nextw, callerVars, stopVars, start_left, tasks,
                 nexttask, statVars, histVars>>

\* The threads that have ended: run() has returned, or an exception has
\* passed through it.  worker.join() returns for both.
Ended == {"exited", "died"}

\* A faulty check that lets a worker go when the pool is at min_threads:
\* "if len(self.pool) < self.pool.min_threads: return False".
RemovalPermitted_AtMin == PoolLen >= min_threads

\* "if len(self.pool) <= self.pool.min_threads: return False"
RemovalPermitted == PoolLen > min_threads

\* _RemoveFromPool(), called after a timeout (rm_idle) or by the age check
\* (rm_age): under the pool lock, remove the worker if the pool keeps
\* min_threads workers.  After a refused removal on timeout the age check
\* follows; after a refused removal by the age check the loop starts again.
WorkerRemove(w) ==
  /\ wpc[w] \in {"rm_idle", "rm_age"}
  /\ LockFree
  /\ IF RemovalPermitted
       THEN /\ workers' = workers \ {w}
            /\ workers_ro_copy' = workers \ {w}
            /\ wpc' = [wpc EXCEPT ![w] = "exited"]
       ELSE /\ UNCHANGED <<workers, workers_ro_copy>>
            /\ IF wpc[w] = "rm_idle"
                 THEN AgeCheck(w)
                 ELSE wpc' = [wpc EXCEPT ![w] = "get"]
  /\ UNCHANGED <<poolVars, regVars, conv,
                 started, queue, unfinished, lock, wtask, nextw,
                 callerVars, stopVars, start_left, tasks, nexttask, statVars,
                 histVars>>

\* ------------------------------------------------------ ThreadPool._AddWorker
\* "worker = _WorkerThread(self._queue, self); worker.start()" succeeds:
\* start() returns when the new thread is running; the thread is at its first
\* get and is not in the worker maps yet.
SpawnWorker ==
  /\ nextw \in DOMAIN wpc
  /\ wpc' = [wpc EXCEPT ![nextw] = "get"]
  /\ nextw' = nextw + 1

\* The worker whose thread was started last: the one the caller that holds
\* the pool lock in _AddWorker is about to enter in the maps.
Spawned == nextw - 1

\* "self._workers[worker.name] = worker;
\* self._workers_ro_copy = self._workers.copy()"
RegisterWorker ==
  /\ workers' = workers \cup {Spawned}
  /\ workers_ro_copy' = workers \cup {Spawned}

\* ------------------------------------------------------------ ThreadPool.Start
NeedsStart_Always == TRUE

\* "if not self.started:" in Start.
NeedsStart == ~started

\* Start() is called and gets the pool lock (utils.Synchronized): on a started
\* pool it returns at once; otherwise it marks the pool started and has
\* min_threads workers to add.
StartEnter(c) ==
  /\ cpc[c] = "idle"
  /\ MayCall(c, "Start")
  /\ LockFree
  /\ IF ~NeedsStart
       THEN /\ UNCHANGED <<started, lock, cpc, start_left, start_failed>>
            /\ conv' = AfterStart(c, FALSE)
       ELSE /\ started' = TRUE
            /\ lock' = c
            /\ cpc' = [cpc EXCEPT ![c] = "start_add"]
            /\ start_left' = min_threads
            /\ start_failed' = FALSE
            /\ UNCHANGED conv
  /\ UNCHANGED <<poolVars, regVars,
                 queue, unfinished, workers, workers_ro_copy, workerVars,
                 ctask, cblocking, cinline, cobs, stopVars, tasks, nexttask,
                 statVars, stop_snap>>

\* "for _ in range(self.min_threads): self._AddWorker()", the first half of
\* one _AddWorker: the thread is started, or worker.start() raises and the
\* exception leaves Start (nothing catches it), which releases the lock.
StartSpawn(c) ==
  /\ cpc[c] = "start_add"
  /\ start_left > 0
  /\ \E spawns \in BOOLEAN :
       IF spawns
         THEN /\ SpawnWorker
              /\ cpc' = [cpc EXCEPT ![c] = "start_reg"]
              /\ UNCHANGED <<lock, start_left, start_failed, conv>>
         ELSE /\ lock' = NoOwner
              /\ cpc' = [cpc EXCEPT ![c] = "idle"]
              /\ start_left' = 0
              /\ start_failed' = TRUE
              /\ conv' = AfterStart(c, TRUE)
              /\ UNCHANGED <<wpc, nextw>>
  /\ UNCHANGED <<poolVars, regVars,
                 started, queue, unfinished, workers, workers_ro_copy, wtask,
                 ctask, cblocking, cinline, cobs, stopVars, tasks, nexttask,
                 statVars, stop_snap>>

\* The second half of that _AddWorker: the started worker is entered in the
\* maps.
StartRegister(c) ==
  /\ cpc[c] = "start_reg"
  /\ RegisterWorker
  /\ start_left' = start_left - 1
  /\ cpc' = [cpc EXCEPT ![c] = "start_add"]
  /\ UNCHANGED <<poolVars, regVars, conv,
                 started, queue, unfinished, lock, workerVars,
                 ctask, cblocking, cinline, cobs, stopVars, tasks, nexttask,
                 statVars, histVars>>

\* The loop of Start is over: Start returns and releases the lock.
StartReturn(c) ==
  /\ cpc[c] = "start_add"
  /\ start_left = 0
  /\ lock' = NoOwner
  /\ cpc' = [cpc EXCEPT ![c] = "idle"]
  /\ conv' = AfterStart(c, FALSE)
  /\ UNCHANGED <<poolVars, regVars,
                 started, queue, unfinished, workers, workers_ro_copy,
                 workerVars, ctask, cblocking, cinline, cobs, stopVars,
                 start_left, tasks, nexttask, statVars, histVars>>

\* ------------------------------------------------------------ ThreadPool.Stop
Cleared_Kept == workers

\* "self._workers = {}; self._workers_ro_copy = {}" in Stop.
Cleared == {}

\* A faulty Stop that sends one stop message per configured worker:
\* "for _ in range(self.min_threads)".
Sentinels_MinThreads(ws) == min_threads

\* "for _ in workers: self._queue.put(STOP_MESSAGE)": the number of stop
\* messages Stop has to put for the captured workers ws.
Sentinels(ws) == Cardinality(ws)

\* Stop() is called and gets the pool lock (utils.Synchronized): a pool that
\* is not started logs a warning and is about to return; otherwise the
\* workers are captured and the maps are cleared.
StopEnter(c) ==
  /\ cpc[c] = "idle"
  /\ MayCall(c, "Stop")
  /\ LockFree
  /\ lock' = c
  /\ conv' = AfterStop(c)
  /\ stop_snap' = QueuedTasks(queue)
  /\ IF ~started
       THEN /\ cpc' = [cpc EXCEPT ![c] = "stop_warn"]
            /\ UNCHANGED <<workers, workers_ro_copy, stopVars>>
       ELSE /\ stop_workers' = workers
            /\ stop_left' = Sentinels(workers)
            /\ workers' = Cleared
            /\ workers_ro_copy' = Cleared
            /\ cpc' = [cpc EXCEPT ![c] = "stop_put"]
  /\ UNCHANGED <<poolVars, regVars,
                 started, queue, unfinished, workerVars, ctask,
                 cblocking, cinline, cobs, start_left, tasks, nexttask, statVars,
                 start_failed>>

\* "logging.warning(...); return" of a Stop on a pool that is not started.
StopWarn(c) ==
  /\ cpc[c] = "stop_warn"
  /\ lock' = NoOwner
  /\ cpc' = [cpc EXCEPT ![c] = "idle"]
  /\ stop_snap' = {}
  /\ UNCHANGED <<poolVars, regVars, conv,
                 started, queue, unfinished, workers, workers_ro_copy,
                 workerVars, ctask, cblocking, cinline, cobs, stopVars, start_left, tasks,
                 nexttask, statVars, start_failed>>

\* "for _ in workers: self._queue.put(STOP_MESSAGE)": one blocking put, which
\* waits while the queue is full.
StopPut(c) ==
  /\ cpc[c] = "stop_put"
  /\ stop_left > 0
  /\ ~QueueFull
  /\ queue' = Append(queue, STOP_MESSAGE)
  /\ unfinished' = unfinished + 1
  /\ stop_left' = stop_left - 1
  /\ UNCHANGED <<poolVars, regVars, conv,
                 started, workers, workers_ro_copy, lock, workerVars,
                 callerVars, stop_workers, start_left, tasks, nexttask, statVars,
                 histVars>>

\* "self.started = False; self.Join()": Stop now waits for the queue's
\* unfinished count to reach zero.
StopUnset(c) ==
  /\ cpc[c] = "stop_put"
  /\ stop_left = 0
  /\ started' = FALSE
  /\ cpc' = [cpc EXCEPT ![c] = "stop_join"]
  /\ UNCHANGED <<poolVars, regVars, conv,
                 queue, unfinished, workers, workers_ro_copy, lock,
                 workerVars, ctask, cblocking, cinline, cobs, stopVars, start_left, tasks, nexttask,
                 statVars, histVars>>

\* self.Join() inside Stop returns.
StopJoined(c) ==
  /\ cpc[c] = "stop_join"
  /\ unfinished = 0
  /\ cpc' = [cpc EXCEPT ![c] = "stop_wjoin"]
  /\ UNCHANGED <<poolVars, regVars, conv,
                 started, queue, unfinished, workers, workers_ro_copy,
                 lock, workerVars, ctask, cblocking, cinline, cobs, stopVars, start_left, tasks,
                 nexttask, statVars, histVars>>

\* "for worker in workers: worker.join()": every captured worker has exited;
\* Stop returns and releases the lock.
StopReturn(c) ==
  /\ cpc[c] = "stop_wjoin"
  /\ \A w \in stop_workers : wpc[w] \in Ended
  /\ lock' = NoOwner
  /\ cpc' = [cpc EXCEPT ![c] = "idle"]
  /\ stop_workers' = {}
  /\ stop_snap' = {}
  /\ UNCHANGED <<poolVars, regVars, conv,
                 started, queue, unfinished, workers, workers_ro_copy,
                 workerVars, ctask, cblocking, cinline, cobs, stop_left,
                 start_left, tasks, nexttask, statVars, start_failed>>

\* ------------------------------------------------------------ ThreadPool.Join
\* A caller calls Join(): self._queue.join() waits for the unfinished count.
JoinCall(c) ==
  /\ cpc[c] = "idle"
  /\ MayCall(c, "Join")
  /\ cpc' = [cpc EXCEPT ![c] = "join"]
  /\ UNCHANGED <<poolVars, regVars, conv,
                 started, queue, unfinished, workers, workers_ro_copy,
                 lock, workerVars, ctask, cblocking, cinline, cobs, stopVars, start_left, tasks,
                 nexttask, statVars, histVars>>

JoinReturn(c) ==
  /\ cpc[c] = "join"
  /\ unfinished = 0
  /\ cpc' = [cpc EXCEPT ![c] = "idle"]
  /\ UNCHANGED <<poolVars, regVars, conv,
                 started, queue, unfinished, workers, workers_ro_copy,
                 lock, workerVars, ctask, cblocking, cinline, cobs, stopVars, start_left, tasks,
                 nexttask, statVars, histVars>>

\* ------------------------------------------------------------ ThreadPool.AddTask
\* A faulty AddTask without the max_threads == 0 shortcut.
RunsOnCaller_Never == FALSE

\* "if self.max_threads == 0": the pool has no worker threads.
RunsOnCaller == max_threads = 0

\* "if inline: blocking = False"
EffectiveBlocking(blocking, inline) == IF inline THEN FALSE ELSE blocking

\* CPUUsage(): the process's CPU percentage if cpu_check, else 0.
CPUUsage(sample) == IF cpu_check THEN sample ELSE 0

\* A faulty growth condition that does not look at the CPU usage.
MayGrow_NoCpu(sample) == PoolLen < max_threads

\* "if len(self) < self.max_threads and self.CPUUsage() < 90"
MayGrow(sample) == PoolLen < max_threads /\ CPUUsage(sample) < CpuLimit

\* A faulty policy that forgets the inline fallback.
FullPolicy_NoInline(blocking, inline) ==
  IF blocking THEN "block" ELSE "Full"

\* What AddTask does when the queue is full and no worker was added:
\* "if inline: break / elif blocking: put(block=True, timeout=1) / else: raise Full()"
FullPolicy(blocking, inline) ==
  IF inline THEN "inline" ELSE IF blocking THEN "block" ELSE "Full"

\* target(*args) is called on the calling thread.
RunOnCaller(t, how) ==
  [tasks EXCEPT ![t].cruns = @ + 1, ![t].outcome = how]

\* AddTask returns, or raises: its arguments and locals are gone, and the
\* caller's program goes on.
Leave(c, raised) ==
  /\ conv' = AfterAddTask(c, raised)
  /\ cpc' = [cpc EXCEPT ![c] = "idle"]
  /\ ctask' = [ctask EXCEPT ![c] = NoTask]
  /\ cblocking' = [cblocking EXCEPT ![c] = FALSE]
  /\ cinline' = [cinline EXCEPT ![c] = FALSE]
  /\ cobs' = [cobs EXCEPT ![c] = NoObs]

\* A put that inserts the task at the front of the queue.
PutAndReturn_Front(c) ==
  /\ queue' = <<ctask[c]>> \o queue
  /\ unfinished' = unfinished + 1
  /\ tasks' = [tasks EXCEPT ![ctask[c]].puts = @ + 1, ![ctask[c]].outcome = "queued"]
  /\ lock' = NoOwner
  /\ Leave(c, FALSE)

\* self._queue.put(task) succeeds and AddTask returns, releasing the lock.
PutAndReturn(c) ==
  /\ queue' = Append(queue, ctask[c])
  /\ unfinished' = unfinished + 1
  /\ tasks' = [tasks EXCEPT ![ctask[c]].puts = @ + 1, ![ctask[c]].outcome = "queued"]
  /\ lock' = NoOwner
  /\ Leave(c, FALSE)

\* A caller calls AddTask(target, args, name, blocking, inline) with a new
\* task.  With max_threads == 0 the caller calls the task's body at once;
\* otherwise inline overrides blocking and the caller goes for the pool lock.
AddTaskCall(c) ==
  /\ cpc[c] = "idle"
  /\ MayCall(c, "AddTask")
  /\ nexttask \in DOMAIN tasks
  /\ nexttask' = nexttask + 1
  /\ \E blocking \in BOOLEAN, inline \in BOOLEAN :
       LET t == nexttask
       IN /\ conv[c].stage = "AddTask" => (blocking /\ ~inline)
          /\ IF RunsOnCaller
               THEN /\ tasks' = RunOnCaller(t, "sync")
                    /\ ctask' = [ctask EXCEPT ![c] = t]
                    /\ cpc' = [cpc EXCEPT ![c] = "body"]
                    /\ UNCHANGED <<cblocking, cinline, cobs>>
               ELSE /\ tasks' = [tasks EXCEPT ![t].outcome = "pending"]
                    /\ ctask' = [ctask EXCEPT ![c] = t]
                    /\ cblocking' = [cblocking EXCEPT ![c] =
                                       EffectiveBlocking(blocking, inline)]
                    /\ cinline' = [cinline EXCEPT ![c] = inline]
                    /\ cpc' = [cpc EXCEPT ![c] = "lock"]
                    /\ UNCHANGED cobs
  /\ UNCHANGED <<poolVars, regVars, conv,
                 started, queue, unfinished, workers, workers_ro_copy,
                 lock, workerVars, stopVars, start_left, statVars, histVars>>

\* "with self.lock:"
AddTaskLock(c) ==
  /\ cpc[c] = "lock"
  /\ LockFree
  /\ lock' = c
  /\ cpc' = [cpc EXCEPT ![c] = "try"]
  /\ UNCHANGED <<poolVars, regVars, conv,
                 started, queue, unfinished, workers, workers_ro_copy,
                 workerVars, ctask, cblocking, cinline, cobs, stopVars, start_left, tasks,
                 nexttask, statVars, histVars>>

\* One iteration of the loop begins: "self._queue.put(task, block=False)"
\* succeeds and AddTask returns, or raises Queue.Full.
AddTaskTry(c) ==
  /\ cpc[c] = "try"
  /\ IF ~QueueFull
       THEN PutAndReturn(c)
       ELSE /\ cpc' = [cpc EXCEPT ![c] = "full"]
            /\ UNCHANGED <<queue, unfinished, tasks, lock, ctask, cblocking,
                           cinline, cobs, conv>>
  /\ UNCHANGED <<poolVars, regVars,
                 started, workers, workers_ro_copy, workerVars,
                 stopVars, start_left, nexttask, statVars, histVars>>

\* What AddTask had in front of it when no worker was added: len(self), the
\* CPU usage if it was read (the "and" reads it only when len(self) is below
\* max_threads), and whether a spawn was tried and failed.
Observed(sample) ==
  [live |-> PoolLen,
   cpu |-> IF PoolLen < max_threads THEN CPUUsage(sample) ELSE -1,
   spawn |-> IF MayGrow(sample) THEN "failed" ELSE "none"]

\* The "except Queue.Full:" branch, up to the blocking put: if MayGrow,
\* _AddWorker is called and starts a thread, unless the spawn fails (the
\* exception is caught and logged); without a new thread the FullPolicy
\* applies: leave the with block to run the task inline, go on to the
\* blocking put, or raise Full.  sample is what cpu_percent returns, spawns
\* whether worker.start() succeeds.
AddTaskFull(c, sample, spawns) ==
  /\ cpc[c] = "full"
  /\ IF MayGrow(sample) /\ spawns
       THEN /\ SpawnWorker
            /\ cpc' = [cpc EXCEPT ![c] = "add_reg"]
            /\ UNCHANGED <<lock, cobs>>
       ELSE /\ UNCHANGED <<wpc, nextw>>
            /\ LET policy == FullPolicy(cblocking[c], cinline[c])
               IN /\ cpc' = [cpc EXCEPT ![c] = policy]
                  /\ lock' = IF policy = "inline" THEN NoOwner ELSE lock
                  /\ cobs' = IF policy = "Full"
                       THEN [cobs EXCEPT ![c] = Observed(sample)]
                       ELSE cobs
  /\ UNCHANGED <<poolVars, regVars, conv,
                 started, queue, unfinished, workers, workers_ro_copy, wtask,
                 ctask, cblocking, cinline, stopVars, start_left, tasks,
                 nexttask, statVars, start_failed, stop_snap>>

\* The "except Queue.Full:" branch for some CPU usage and some outcome of the
\* thread creation.
AddTaskGrow(c) ==
  \E sample \in CpuSamples, spawns \in BOOLEAN : AddTaskFull(c, sample, spawns)

\* The second half of _AddWorker in AddTask: the started worker is entered in
\* the maps, and "continue" begins the next iteration.
AddTaskRegister(c) ==
  /\ cpc[c] = "add_reg"
  /\ RegisterWorker
  /\ cpc' = [cpc EXCEPT ![c] = "try"]
  /\ UNCHANGED <<poolVars, regVars, conv,
                 started, queue, unfinished, lock, workerVars,
                 ctask, cblocking, cinline, cobs, stopVars, start_left, tasks,
                 nexttask, statVars, histVars>>

\* "self._queue.put(task, block=True, timeout=1)" with the lock held: the put
\* succeeds when the queue has room, and times out (continue) when it is full.
AddTaskBlock(c) ==
  /\ cpc[c] = "block"
  /\ IF ~QueueFull
       THEN PutAndReturn(c)
       ELSE /\ cpc' = [cpc EXCEPT ![c] = "try"]
            /\ UNCHANGED <<queue, unfinished, tasks, lock, ctask, cblocking,
                           cinline, cobs, conv>>
  /\ UNCHANGED <<poolVars, regVars,
                 started, workers, workers_ro_copy, workerVars,
                 stopVars, start_left, nexttask, statVars, histVars>>

\* "raise Full()": the exception leaves the with block, which releases the lock.
AddTaskRaise(c) ==
  /\ cpc[c] = "Full"
  /\ tasks' = [tasks EXCEPT ![ctask[c]].outcome = "Full"]
  /\ lock' = NoOwner
  /\ Leave(c, TRUE)
  /\ UNCHANGED <<poolVars, regVars,
                 started, queue, unfinished, workers, workers_ro_copy,
                 workerVars, stopVars, start_left, nexttask, statVars, histVars>>

\* "if inline: target(*args)" after the with block, without the lock: the
\* caller calls the task's body.
AddTaskInline(c) ==
  /\ cpc[c] = "inline"
  /\ tasks' = RunOnCaller(ctask[c], "inline")
  /\ cpc' = [cpc EXCEPT ![c] = "body"]
  /\ UNCHANGED <<poolVars, regVars, conv,
                 started, queue, unfinished, workers, workers_ro_copy,
                 lock, workerVars, ctask, cblocking, cinline, cobs, stopVars,
                 start_left, nexttask, statVars, histVars>>

\* The body the caller is running, for as long as it likes and without the
\* pool lock, returns or raises: AddTask returns, or the exception comes out
\* of AddTask.
AddTaskBody(c) ==
  /\ cpc[c] = "body"
  /\ \E raised \in BOOLEAN : Leave(c, raised)
  /\ UNCHANGED <<poolVars, regVars,
                 started, queue, unfinished, workers, workers_ro_copy,
                 lock, workerVars, stopVars, start_left, tasks, nexttask,
                 statVars, histVars>>

\* ------------------------------------------------------------ ThreadPool.Factory
\* A faulty Factory that does not wait for factory_lock.
FactoryLockFree_Always == TRUE

\* "with cls.factory_lock:" can be entered.
FactoryLockFree == factory_lock = NoOwner

\* "if self.name: if self.name in self.POOLS: raise DuplicateThreadpoolError"
Duplicate(n) == n # "" /\ POOLS[n] # None

\* __init__ succeeds: a new pool object with the configuration Config(a).  The
\* first pool object constructed is the pool under study.
NewPool(a) ==
  /\ pools' = Append(pools, Config(a))
  /\ IF pools = <<>>
       THEN /\ min_threads' = Config(a).min_threads
            /\ max_threads' = Config(a).max_threads
            /\ cpu_check' = Config(a).cpu_check
            /\ name' = Config(a).name
       ELSE UNCHANGED poolVars

\* Convert after "pool = ThreadPool.Factory(self.threadpool_prefix,
\* self.threadpool_size)": pool.Start() is next, unless Factory raised.
AfterFactory(c, raised) ==
  IF conv[c].stage # "Factory" THEN conv
  ELSE [conv EXCEPT ![c].stage = IF raised THEN "raised" ELSE "Start"]

\* The arguments Convert gives Factory: the prefix (a non-empty name), the
\* size as min_threads, and the defaults max_threads=None, cpu_check=True.
ConvertArgs(c) ==
  [name |-> "p", min |-> conv[c].size, max |-> None, cpu |-> TRUE]

\* A thread calls ThreadPool.Factory(name, min_threads, max_threads, cpu_check).
FactoryCall(c) ==
  /\ cpc[c] = "idle"
  /\ MayCall(c, "Factory")
  /\ Len(pools) < MaxPools
  /\ \E a \in CallArgs :
       /\ conv[c].stage = "Factory" => a = ConvertArgs(c)
       /\ fargs' = [fargs EXCEPT ![c] = a]
  /\ cpc' = [cpc EXCEPT ![c] = "f_lock"]
  /\ UNCHANGED <<poolVars, dynVars, POOLS, factory_lock, pools, fres, returned,
                 conv>>

\* "with cls.factory_lock:"
FactoryAcquire(c) ==
  /\ cpc[c] = "f_lock"
  /\ FactoryLockFree
  /\ factory_lock' = c
  /\ cpc' = [cpc EXCEPT ![c] = "f_get"]
  /\ UNCHANGED <<poolVars, dynVars, POOLS, pools, fargs, fres, returned, conv>>

\* "result = cls.POOLS.get(name)" and the test "if result is None".
FactoryGet(c) ==
  /\ cpc[c] = "f_get"
  /\ fres' = [fres EXCEPT ![c] = POOLS[fargs[c].name]]
  /\ cpc' = [cpc EXCEPT ![c] =
               IF POOLS[fargs[c].name] = None THEN "f_new" ELSE "f_ret"]
  /\ UNCHANGED <<poolVars, dynVars, POOLS, factory_lock, pools, fargs, returned,
                 conv>>

\* "cls.POOLS[name] = result = cls(name, min_threads, max_threads=...,
\* cpu_check=...)": the constructor raises DuplicateThreadpoolError, which
\* leaves Factory, or the new pool is stored under its name.
FactoryNew(c) ==
  /\ cpc[c] = "f_new"
  /\ IF Duplicate(fargs[c].name)
       THEN /\ cpc' = [cpc EXCEPT ![c] = "f_dup"]
            /\ UNCHANGED <<poolVars, POOLS, pools, fres>>
       ELSE /\ NewPool(fargs[c])
            /\ POOLS' = [POOLS EXCEPT ![fargs[c].name] = Len(pools) + 1]
            /\ fres' = [fres EXCEPT ![c] = Len(pools) + 1]
            /\ cpc' = [cpc EXCEPT ![c] = "f_ret"]
  /\ UNCHANGED <<dynVars, factory_lock, fargs, returned, conv>>

\* "return result" (or the exception) leaves the with block, which releases
\* factory_lock.
FactoryReturn(c) ==
  /\ cpc[c] \in {"f_ret", "f_dup"}
  /\ factory_lock' = NoOwner
  /\ returned' = IF cpc[c] = "f_ret"
                   THEN [returned EXCEPT ![fargs[c].name] = @ \cup {fres[c]}]
                   ELSE returned
  /\ conv' = AfterFactory(c, cpc[c] = "f_dup")
  /\ cpc' = [cpc EXCEPT ![c] = "idle"]
  /\ fargs' = [fargs EXCEPT ![c] = NoArgs]
  /\ fres' = [fres EXCEPT ![c] = None]
  /\ UNCHANGED <<poolVars, dynVars, POOLS, pools>>

\* A thread calls ThreadPool(name, min_threads, max_threads, cpu_check)
\* directly: __init__ raises DuplicateThreadpoolError if the name is not empty
\* and is a key of POOLS; otherwise there is a new pool object, which POOLS
\* does not hold.
Construct(c) ==
  /\ cpc[c] = "idle"
  /\ MayCall(c, "Construct")
  /\ Len(pools) < MaxPools
  /\ \E a \in CallArgs :
       IF Duplicate(a.name) THEN UNCHANGED <<poolVars, pools>> ELSE NewPool(a)
  /\ UNCHANGED <<dynVars, cpc, POOLS, factory_lock, fargs, fres, returned, conv>>

FactoryNext(c) ==
  FactoryCall(c) \/ FactoryAcquire(c) \/ FactoryGet(c) \/ FactoryNew(c)
    \/ FactoryReturn(c)

WorkerNext == \E w \in WorkerIds :
  \/ WorkerGet(w) \/ WorkerTimeout(w) \/ WorkerStop(w) \/ WorkerBegin(w)
  \/ WorkerEnds(w) \/ WorkerTaskDone(w) \/ WorkerRemove(w)

StartNext(c) ==
  StartEnter(c) \/ StartSpawn(c) \/ StartRegister(c) \/ StartReturn(c)

StopNext(c) ==
  StopEnter(c) \/ StopWarn(c) \/ StopPut(c) \/ StopUnset(c) \/ StopJoined(c)
    \/ StopReturn(c)

JoinNext(c) == JoinCall(c) \/ JoinReturn(c)

AddTaskNext(c) ==
  \/ AddTaskCall(c) \/ AddTaskLock(c) \/ AddTaskTry(c) \/ AddTaskGrow(c)
  \/ AddTaskRegister(c) \/ AddTaskBlock(c) \/ AddTaskRaise(c)
  \/ AddTaskInline(c) \/ AddTaskBody(c)

Next ==
  \/ WorkerNext
  \/ \E c \in Callers :
       StartNext(c) \/ StopNext(c) \/ JoinNext(c) \/ AddTaskNext(c)

Spec == Init /\ [][Next]_vars

\* ------------------------------------------------------ BatchConverter.Convert
\* A thread calls Convert(values, start_index, end_index).
ConvertCall(c) ==
  /\ cpc[c] = "idle"
  /\ conv[c].stage = "Convert"
  /\ conv' = AfterValuesCheck(c)
  /\ UNCHANGED <<poolVars, dynVars, regVars, cpc>>

\* The calls a Convert makes: each thread converts values that are empty or
\* give 0..MaxBatches batches in the slice, with a converter of some
\* threadpool_size and the one threadpool_prefix.
ConvertPrograms ==
  {p \in [stage : {"Convert"}, left : 0..MaxBatches, size : 0..MaxThreads,
          empty : BOOLEAN, batches : {{}}] : p.empty => p.left = 0}

\* No pool exists; every thread is about to call Convert, and there are task
\* identifiers for all batches.
ConvertInit ==
  /\ PoolInit(Config(NoArgs))
  /\ pools = <<>>
  /\ RegistryInit
  /\ conv \in [Callers -> ConvertPrograms]
  /\ conv[1].left + conv[2].left <= MaxTasks

\* The steps of the converting threads and of the pool's workers: Convert
\* calls Factory, Start, AddTask(blocking=True, inline=False) and Stop.
ConvertNext ==
  \/ WorkerNext
  \/ \E c \in Callers :
       \/ ConvertCall(c) \/ FactoryNext(c) \/ StartNext(c)
       \/ AddTaskCall(c) \/ AddTaskLock(c) \/ AddTaskTry(c) \/ AddTaskGrow(c)
       \/ AddTaskRegister(c) \/ AddTaskBlock(c) \/ AddTaskBody(c)
       \/ StopNext(c)

ConvertSpec == ConvertInit /\ [][ConvertNext]_vars

\* -------------------------------------------- scenario: growth under saturation
\* Pool "p" with min_threads=2, max_threads=5, cpu_check=False.
GrowthConfig ==
  [name |-> "p", min_threads |-> 2, max_threads |-> 5, cpu_check |-> FALSE]

\* The producer's program: Start, then six AddTask(blocking=True,
\* inline=False) calls.
Producer ==
  [stage |-> "Start", left |-> 6, size |-> 0, empty |-> FALSE, batches |-> {}]

\* A thread that makes no call.
Bystander ==
  [stage |-> "done", left |-> 0, size |-> 0, empty |-> FALSE, batches |-> {}]

\* The pool has been constructed; there are identifiers for max_threads
\* workers and for the six tasks.
GrowthInit ==
  /\ PoolInitOn(GrowthConfig, 1..GrowthConfig.max_threads, 1..Producer.left)
  /\ pools = <<GrowthConfig>>
  /\ RegistryInit
  /\ conv = [c \in Callers |-> IF c = 1 THEN Producer ELSE Bystander]

\* The scenario's workers.
GrowthWorkers == 1..GrowthConfig.max_threads

\* In the scenario every thread creation succeeds and the tasks are sleeps,
\* which return normally: Start adds its min_threads workers, ...
GrowthStart(c) == StartNext(c) /\ ~start_failed'

\* ... a worker.start() in AddTask succeeds, ...
GrowthGrow(c) == \E sample \in CpuSamples : AddTaskFull(c, sample, TRUE)

\* ... and the body of a task returns.
GrowthEnd(w) == WorkerEnd(w, "returns")

\* The steps of worker w in the scenario.
GrowthWorker(w) ==
  \/ WorkerGet(w) \/ WorkerTimeout(w) \/ WorkerBegin(w) \/ GrowthEnd(w)
  \/ WorkerTaskDone(w) \/ WorkerRemove(w)

\* The steps of producer c in the scenario.
GrowthProducer(c) ==
  \/ GrowthStart(c)
  \/ AddTaskCall(c) \/ AddTaskLock(c) \/ AddTaskTry(c) \/ GrowthGrow(c)
  \/ AddTaskRegister(c) \/ AddTaskBlock(c)

GrowthNext ==
  \/ \E w \in GrowthWorkers : GrowthWorker(w)
  \/ \E c \in Callers : GrowthProducer(c)

\* Every thread that can take a step eventually takes one.
GrowthFairness ==
  /\ \A w \in GrowthWorkers : WF_vars(GrowthWorker(w))
  /\ \A c \in Callers : WF_vars(GrowthProducer(c))

GrowthSpec == GrowthInit /\ [][GrowthNext]_vars /\ GrowthFairness

\* The registry alone: no pool object exists yet, threads call Factory and
\* the constructor.
RegistryOnlyInit ==
  /\ PoolInit(Config(NoArgs))
  /\ pools = <<>>
  /\ RegistryInit
  /\ conv = [c \in Callers |-> Free]

RegistryNext == \E c \in Callers : FactoryNext(c) \/ Construct(c)

RegistrySpec == RegistryOnlyInit /\ [][RegistryNext]_vars

\* ===================================================================== claims
\* Program counters of a caller inside AddTask past the max_threads == 0
\* shortcut and before the task's body, and of one inside a Stop that found
\* the pool started.
InPooledAddTask ==
  {"lock", "try", "full", "add_reg", "block", "Full", "inline"}
InStop == {"stop_put", "stop_join", "stop_wjoin"}
InStart == {"start_add", "start_reg"}

\* The workers the running Start has entered in the maps so far: the lock is
\* held since Start began, so they are the threads created last but for the
\* one that is started and not entered yet.
StartAdded ==
  LET pending == IF \E c \in Callers : cpc[c] = "start_reg" THEN 1 ELSE 0
      added == min_threads - start_left
  IN (nextw - pending - added)..(nextw - pending - 1)

\* How often task t sits in the queue or in a worker's hands.
Occurrences(t) ==
  Cardinality({i \in 1..Len(queue) : queue[i] = t})
    + Cardinality({w \in WorkerIds : wpc[w] = "got" /\ wtask[w] = t})

\* The number of times workers have run the tasks 1..n.
RECURSIVE WorkerRuns(_)
WorkerRuns(n) ==
  IF n = 0 THEN 0 ELSE tasks[n].wruns + WorkerRuns(n - 1)

\* Caller c is in a Stop that found the pool started and is about to return:
\* the Join is over and every captured worker has exited.
StopReturning(c) ==
  cpc[c] = "stop_wjoin" /\ \A w \in stop_workers : wpc[w] \in Ended

\* ------------------------------------------------------------------------ C1
\* C1: in every reachable state the number of workers in the live set is at
\* most max_threads.
C1_LiveAtMostMax == Cardinality(workers) <= max_threads

\* ------------------------------------------------------------------------ C2
\* C2: a Stop that is running on a started pool is never stuck, that is, as
\* long as it has not returned, Stop itself or some worker can take a step;
\* and when it returns, every captured worker has exited, started is false,
\* the live set is empty and the queue's unfinished count is zero.
C2_StopReturns ==
  \A c \in Callers :
    /\ cpc[c] \in InStop =>
         ENABLED (StopPut(c) \/ StopUnset(c) \/ StopJoined(c) \/ StopReturn(c)
                    \/ WorkerNext)
    /\ StopReturning(c) => ~started /\ workers = {} /\ unfinished = 0

\* ------------------------------------------------------------------------ C3
\* Task t is executed at most once: it is run at most once in all, put in the
\* queue at most once, not put in the queue if it ran on the caller, and every
\* copy put in the queue is either still in the queue, or in the hands of one
\* worker, or was run by a worker.
AtMostOnce(t) ==
  /\ tasks[t].wruns + tasks[t].cruns <= 1
  /\ tasks[t].puts <= 1
  /\ tasks[t].cruns > 0 => tasks[t].puts = 0
  /\ Occurrences(t) + tasks[t].wruns = tasks[t].puts

\* The tasks that were in the queue when the running Stop was called have
\* each been invoked exactly once, by a worker.
SnapInvoked ==
  \A t \in stop_snap : tasks[t].wruns = 1 /\ tasks[t].cruns = 0

\* C3 as stated: every task is executed at most once, and whenever a Stop is
\* about to return (on a started pool or not), every task that was in the
\* queue when it was called has been invoked exactly once.
C3_StopInvokesQueued ==
  /\ \A t \in TaskIds : AtMostOnce(t)
  /\ \A c \in Callers :
       (cpc[c] = "stop_warn" \/ StopReturning(c)) => SnapInvoked

\* A Stop that found the pool not started is about to return: it holds the
\* lock, has captured no worker and put no stop message, and each task that
\* was in the queue when it was called is either still there, not invoked,
\* or was taken from the queue by a worker and is invoked at most once.
WarnStopInert ==
  \A c \in Callers :
    cpc[c] = "stop_warn" =>
      /\ ~started /\ lock = c
      /\ stop_workers = {} /\ stop_left = 0
      /\ \A i \in 1..Len(queue) : queue[i] # STOP_MESSAGE
      /\ \A t \in stop_snap :
           /\ tasks[t].puts = 1 /\ tasks[t].cruns = 0
           /\ \/ t \in QueuedTasks(queue) /\ tasks[t].wruns = 0
              \/ t \notin QueuedTasks(queue) /\ tasks[t].wruns <= 1

\* The two steps of a Stop on a pool that is not started, the call and the
\* return, leave the queue, the tasks, the outstanding count, the live set,
\* the workers and the started flag as they are.
StopWarnStep ==
  \A c \in Callers :
    (\/ cpc[c] = "idle" /\ cpc'[c] = "stop_warn"
     \/ cpc[c] = "stop_warn" /\ cpc'[c] = "idle") =>
      /\ queue' = queue /\ tasks' = tasks /\ unfinished' = unfinished
      /\ workers' = workers /\ workers_ro_copy' = workers_ro_copy
      /\ wpc' = wpc /\ started' = started

\* C3: every task accepted by AddTask is executed at most once (by one
\* worker, or on the caller and then never enqueued); every task that was in
\* the queue when Stop was called on a STARTED pool has been invoked exactly
\* once when that Stop returns; a Stop on a pool that is not started captures
\* no worker, puts no stop message, waits for nothing and changes nothing,
\* and a task that was in the queue when it was called is, when it returns,
\* still in the queue and not invoked, or taken by a worker and invoked at
\* most once.
C3_AtMostOnce ==
  /\ [](\A t \in TaskIds : AtMostOnce(t))
  /\ [](\A c \in Callers : StopReturning(c) => SnapInvoked)
  /\ []WarnStopInert
  /\ [][StopWarnStep]_vars

\* A Stop on a started pool is about to return, and tasks were in the queue
\* when it was called.
C3_Witness ==
  \E c \in Callers : StopReturning(c) /\ stop_snap # {} /\ stop_workers # {}

\* ------------------------------------------------------------------------ C4
\* C4: in a started pool with max_threads > 0 whose Start did not fail, a
\* Join that waits for admitted tasks after the last AddTask (every other
\* caller is idle or in Join as well) is never stuck: some worker can take a
\* step towards executing and acknowledging the outstanding tasks.
C4_JoinReturns ==
  \A c \in Callers :
    ( /\ cpc[c] = "join"
      /\ unfinished > 0
      /\ max_threads > 0
      /\ started /\ ~start_failed
      /\ \A d \in Callers : cpc[d] \in {"idle", "join"} )
    => ENABLED WorkerNext

\* ------------------------------------------------------------------------ C5
\* Start has returned without a spawn failure and no Stop has begun.
Running ==
  /\ started /\ ~start_failed
  /\ \A c \in Callers : cpc[c] # "stop_put" /\ cpc[c] \notin InStart

\* A worker that retires (leaves the live set and exits in its own step) does
\* so only when the live count exceeds min_threads, and leaves at least
\* min_threads workers.
RetireStep ==
  \A w \in WorkerIds :
    ( /\ w \in workers /\ w \notin workers'
      /\ wpc[w] \in {"rm_idle", "rm_age"} /\ wpc'[w] = "exited" ) =>
      /\ Cardinality(workers) > min_threads
      /\ Cardinality(workers') >= min_threads
      /\ workers' = workers \ {w}

\* C5: from the return of a Start without spawn failure until a Stop begins,
\* the live worker count is at least min_threads; a retirement removes a
\* worker only if the live count exceeds min_threads at that moment, check
\* and removal being one step under the pool lock.
C5_AtLeastMin ==
  /\ [](Running => Cardinality(workers) >= min_threads)
  /\ [][RetireStep]_vars

\* Two live workers are both in _RemoveFromPool while the pool is exactly one
\* worker above min_threads: only one of them may go.
C5_Witness ==
  /\ Running
  /\ Cardinality(workers) = min_threads + 1
  /\ Cardinality(workers) <= max_threads
  /\ \E w1 \in workers, w2 \in workers :
       w1 # w2 /\ wpc[w1] \in {"rm_idle", "rm_age"}
               /\ wpc[w2] \in {"rm_idle", "rm_age"}

\* ------------------------------------------------------------------------ C6
\* C6: AddTask with inline=true (whatever blocking is) never raises Full and
\* never does the blocking put; when it gives up on the queue it has released
\* the pool lock, the task is not in the queue, and the task is then run
\* exactly once, on the caller, never by a worker.
C6_InlineFallback ==
  /\ \A c \in Callers :
       /\ cinline[c] => cpc[c] \notin {"block", "Full"}
       /\ cpc[c] = "inline" =>
            /\ cinline[c]
            /\ lock # c
            /\ tasks[ctask[c]].puts = 0
            /\ tasks[ctask[c]].cruns = 0
            /\ Occurrences(ctask[c]) = 0
       /\ (cpc[c] = "body" /\ max_threads > 0) =>
            /\ cinline[c]
            /\ lock # c
            /\ tasks[ctask[c]].outcome = "inline"
            /\ Occurrences(ctask[c]) = 0
  /\ \A t \in TaskIds :
       tasks[t].outcome = "inline" =>
         tasks[t].cruns = 1 /\ tasks[t].puts = 0 /\ tasks[t].wruns = 0

\* An AddTask with inline=true found the queue full of tasks on a started
\* pool, added no worker, has released the lock and is about to run the task
\* inline.
C6_Witness ==
  \E c \in Callers :
    /\ cpc[c] = "inline" /\ cinline[c]
    /\ started /\ lock = NoOwner
    /\ Len(queue) = max_threads
    /\ \A i \in 1..Len(queue) : queue[i] # STOP_MESSAGE

\* ------------------------------------------------------------------------ C7
\* What holds of a caller that is about to raise Full, up to the reason why no
\* worker was added: blocking and inline are both false, and the task was
\* neither enqueued nor executed.
RaisesFull(c) ==
  /\ ~cblocking[c] /\ ~cinline[c]
  /\ tasks[ctask[c]].puts = 0
  /\ tasks[ctask[c]].wruns = 0
  /\ tasks[ctask[c]].cruns = 0
  /\ Occurrences(ctask[c]) = 0

\* A task for which Full was raised is never enqueued or executed.
FullTasksDropped ==
  \A t \in TaskIds :
    tasks[t].outcome = "Full" =>
      tasks[t].puts = 0 /\ tasks[t].wruns = 0 /\ tasks[t].cruns = 0

\* AddTask gets to "raise Full()" only from the except clause of a
\* non-blocking push that failed, and that push fails only on a full queue.
FullAfterFailedPush ==
  \A c \in Callers :
    /\ (cpc[c] # "Full" /\ cpc'[c] = "Full") => cpc[c] = "full"
    /\ (cpc[c] # "full" /\ cpc'[c] = "full") =>
         /\ cpc[c] = "try"
         /\ Len(queue) = max_threads
         /\ queue' = queue

\* The step that raises Full leaves the queue as it is.
RaiseStep ==
  \A c \in Callers :
    (cpc[c] = "Full" /\ cpc'[c] = "idle") =>
      queue' = queue /\ unfinished' = unfinished

\* C7: Full is raised only with blocking=false and inline=false, after the
\* non-blocking push has failed on a full queue, and no worker could be added
\* because the live count EQUALS max_threads, or the CPU usage is at least
\* 90, or the spawn failed; the task is then neither enqueued nor executed
\* and raising leaves the queue unchanged.
C7_FullLiveEqualsMax ==
  /\ [](\A c \in Callers :
          cpc[c] = "Full" =>
            /\ RaisesFull(c)
            /\ \/ cobs[c].live = max_threads
               \/ cobs[c].cpu >= CpuLimit
               \/ cobs[c].spawn = "failed")
  /\ []FullTasksDropped
  /\ [][FullAfterFailedPush]_vars
  /\ [][RaiseStep]_vars

\* What the growth test "len(self) < self.max_threads" gives in place of the
\* equality: Full is raised with the live count AT LEAST max_threads, which
\* it exceeds once Start has added min_threads workers to a pool that AddTask
\* had grown before.
FullOnlyWhenSaturated ==
  /\ [](\A c \in Callers :
          cpc[c] = "Full" =>
            /\ RaisesFull(c)
            /\ \/ cobs[c].live >= max_threads
               \/ cobs[c].cpu >= CpuLimit
               \/ cobs[c].spawn = "failed")
  /\ []FullTasksDropped
  /\ [][FullAfterFailedPush]_vars
  /\ [][RaiseStep]_vars

\* AddTask is about to raise Full on a pool with more live workers than
\* max_threads.
FullRaisedAboveMax ==
  \E c \in Callers : cpc[c] = "Full" /\ cobs[c].live > max_threads

\* ------------------------------------------------------------------------ C8
\* C8: an AddTask call with blocking=false or inline=true that is about to
\* enter "with self.lock" can do so, without waiting for any other thread,
\* also while another caller is in the blocking put of a blocking-mode
\* AddTask on the same started, saturated pool (the queue is full and the
\* live count is max_threads).
C8_NonBlockingNeverWaits ==
  \A c \in Callers :
    ( /\ cpc[c] = "lock"
      /\ ~cblocking[c] \/ cinline[c]
      /\ started /\ QueueFull /\ PoolLen = max_threads
      /\ \E d \in Callers : cpc[d] = "block" )
    => ENABLED AddTaskLock(c)

\* ------------------------------------------------------------------------ C9
\* The workers whose task body is running.
Busy == {w \in WorkerIds : wpc[w] = "run"}

\* The stats of a named pool: one queueing_time event per task begun by a
\* worker, one working_time event per task whose body has ended, and no more
\* exceptions than those.
StatsCount ==
  name # "" =>
    /\ queueing_time = WorkerRuns(MaxTasks)
    /\ working_time = queueing_time - Cardinality(Busy)
    /\ task_exceptions <= working_time

\* The step in which the body of a worker's task ends by raising: the worker
\* is left to acknowledge the task and go on, and a named pool counts one
\* exception and one working_time event.
RaiseContained ==
  \A w \in WorkerIds, outcome \in Outcomes \ {"returns"} :
    WorkerEnd(w, outcome) =>
      /\ wpc'[w] = "done"
      /\ name # "" =>
           /\ task_exceptions' = task_exceptions + 1
           /\ working_time' = working_time + 1

\* The step in which a worker acknowledges a task: the unfinished count goes
\* down by one, the worker stays in the live set if it was there and goes on
\* with its loop.
FinishStep ==
  \A w \in WorkerIds :
    WorkerTaskDone(w) =>
      /\ unfinished' = unfinished - 1
      /\ workers' = workers
      /\ wpc'[w] \in {"get", "rm_age"}

\* C9: a task whose body raises an exception does not end its worker: the
\* worker acknowledges the task, stays in the live set and goes on with its
\* loop; in a named pool every finished task adds one working_time event and
\* every raising one adds exactly one to task_exceptions, so N tasks of which
\* K raise give K and N.
C9_ExceptionContained ==
  /\ []StatsCount
  /\ [][RaiseContained]_vars
  /\ [][FinishStep]_vars

\* ----------------------------------------------------------------------- C10
\* C10: with max_threads == 0 every AddTask call has run its task exactly once
\* on the caller when it returns, in every mode; nothing is ever in the queue
\* or outstanding, no caller is ever inside AddTask's locked part, and no
\* worker is ever created: the live set is empty in every reachable state.
C10_ZeroThreads ==
  max_threads = 0 =>
    /\ queue = <<>>
    /\ unfinished = 0
    /\ workers = {} /\ workers_ro_copy = {}
    /\ nextw = 1
    /\ \A w \in WorkerIds : wpc[w] = "unborn"
    /\ \A c \in Callers :
         /\ cpc[c] \notin InPooledAddTask
         /\ cpc[c] = "body" => lock # c /\ tasks[ctask[c]].outcome = "sync"
    /\ \A t \in TaskIds :
         IF t < nexttask
           THEN tasks[t] = [outcome |-> "sync", puts |-> 0, wruns |-> 0, cruns |-> 1]
           ELSE tasks[t] = NewTask

\* A pool with max_threads == 0 that was started, ran a task on the caller,
\* and is in a Stop that is about to return.
C10_Witness ==
  /\ max_threads = 0
  /\ tasks[1].outcome = "sync"
  /\ \E c \in Callers : StopReturning(c)

\* ----------------------------------------------------------------------- C11
\* What Factory has returned and is returning for each name is one
\* instance, the pool POOLS holds under that name, and Factory does not raise.
OneInstance ==
  /\ \A n \in Names :
       /\ Cardinality(returned[n]) <= 1
       /\ returned[n] \subseteq {POOLS[n]}
  /\ \A c \in Callers :
       /\ cpc[c] # "f_dup"
       /\ cpc[c] = "f_ret" =>
            /\ fres[c] = POOLS[fargs[c].name]
            /\ fres[c] \in 1..Len(pools)
            /\ pools[fres[c]].name = fargs[c].name

\* A Factory call that finds no pool under its name constructs one with its
\* own arguments and registers it; one that finds a pool constructs nothing;
\* no step changes the configuration of an existing pool or replaces a
\* registered pool.
FactoryStep ==
  /\ \A c \in Callers :
       /\ (cpc[c] = "f_new" /\ cpc'[c] = "f_ret") =>
            /\ POOLS[fargs[c].name] = None
            /\ Len(pools') = Len(pools) + 1
            /\ POOLS'[fargs[c].name] = Len(pools')
            /\ pools'[Len(pools')] = Config(fargs[c])
       /\ (cpc[c] = "f_get" /\ cpc'[c] = "f_ret") =>
            pools' = pools /\ POOLS' = POOLS
  /\ \A i \in 1..Len(pools) : Len(pools') >= i /\ pools'[i] = pools[i]
  /\ \A n \in Names : POOLS[n] # None => POOLS'[n] = POOLS[n]

\* C11: for any name, all Factory calls with that name, sequential or
\* concurrent, return the same pool instance; the pool is constructed once,
\* with the arguments of the call that found the name free, and later calls
\* leave its configuration unchanged.
C11_SameInstance ==
  /\ []OneInstance
  /\ [][FactoryStep]_vars

\* A second Factory call on a name, with arguments that differ from the
\* registered pool's configuration, is about to return the instance an
\* earlier call has already returned.
C11_Witness ==
  \E c \in Callers :
    /\ cpc[c] = "f_ret"
    /\ returned[fargs[c].name] = {fres[c]}
    /\ Config(fargs[c]) # pools[fres[c]]

\* ----------------------------------------------------------------------- C12
\* C12: no two distinct constructed pools have the same non-empty name.
C12_UniqueNames ==
  \A i \in 1..Len(pools), j \in 1..Len(pools) :
    (i # j /\ pools[i].name # "") => pools[i].name # pools[j].name

\* ----------------------------------------------------------------------- C13
\* A Start call on a started pool changes nothing; a Start call on a pool
\* that is not started marks it started and has min_threads workers to add;
\* while it runs the live set changes only by its adding one new worker, and
\* it returns when it has added min_threads workers.
StartStep ==
  \A c \in Callers :
    /\ StartEnter(c) =>
         IF started
           THEN UNCHANGED vars
           ELSE started' /\ start_left' = min_threads /\ workers' = workers
    /\ (cpc[c] \in InStart /\ workers' # workers) =>
         /\ StartRegister(c)
         /\ Spawned \notin workers
         /\ workers' = workers \cup {Spawned}
         /\ start_left' = start_left - 1
    /\ StartReturn(c) =>
         /\ start_left = 0
         /\ Cardinality(StartAdded) = min_threads
         /\ StartAdded \subseteq workers
         /\ workers' = workers

\* C13: Start is idempotent: a Start on an already started pool spawns no
\* worker and changes no state, whichever thread issues it, so that a second
\* Start leaves the live worker count the first one produced, min_threads.
C13_StartIdempotent ==
  [][StartStep]_vars

\* A pool started without a spawn failure holds its min_threads >= 1 workers,
\* nothing else has touched it, and two threads can each call Start again.
C13_Witness ==
  /\ started /\ ~start_failed
  /\ min_threads >= 1
  /\ workers = 1..min_threads
  /\ nextw = min_threads + 1
  /\ nexttask = 1
  /\ \A c \in Callers : ENABLED StartEnter(c)

\* ----------------------------------------------------------------------- C14
\* When Stop returns, the pool is not started, its live set is empty and
\* every worker Stop captured has exited.
StopLeavesNone ==
  \A c \in Callers :
    (cpc[c] = "stop_wjoin" /\ cpc'[c] = "idle") =>
      /\ ~started'
      /\ workers' = {} /\ workers_ro_copy' = {}
      /\ \A w \in stop_workers : wpc'[w] = "exited"

\* A Start that finds the pool as Stop left it (not started, live set empty)
\* has, when it returns, left min_threads live workers, all of them threads
\* it created itself; a Start that raises has left fewer.
RestartStep ==
  \A c \in Callers :
    /\ (StartSpawn(c) /\ cpc'[c] = "start_reg") =>
         wpc[nextw] = "unborn" /\ wpc'[nextw] = "get" /\ Spawned' = nextw
    /\ (StartReturn(c) /\ workers \ StartAdded = {}) =>
         /\ started'
         /\ workers' = StartAdded
         /\ workers_ro_copy' = workers'
         /\ Cardinality(workers') = min_threads
    /\ (StartSpawn(c) /\ start_failed' /\ workers \ StartAdded = {}) =>
         Cardinality(workers') < min_threads

\* C14: a Stop followed by a Start leaves the pool with exactly min_threads
\* live workers, none of which is a worker from before the Stop.
C14_StopStartRoundTrip ==
  /\ [][StopLeavesNone]_vars
  /\ [][RestartStep]_vars

\* The pool was started, stopped and started again: its one live worker is
\* not the worker of the first Start, which has exited.
C14_Witness ==
  /\ started /\ ~start_failed
  /\ min_threads = 1
  /\ workers = {2}
  /\ wpc[1] = "exited"
  /\ lock = NoOwner

\* ----------------------------------------------------------------------- C15
\* A worker's get takes the message at the head of the queue and removes it.
DequeueHead ==
  \A w \in WorkerIds :
    (wpc[w] = "get" /\ wpc'[w] = "got") =>
      /\ queue # <<>>
      /\ wtask'[w] = Head(queue)
      /\ queue' = Tail(queue)

\* The queue changes only by a put, which adds one message behind all those
\* already queued, or by a worker's get.
EnqueueTail ==
  queue' # queue =>
    \/ /\ Len(queue') = Len(queue) + 1
       /\ SubSeq(queue', 1, Len(queue)) = queue
    \/ /\ queue' = Tail(queue)
       /\ \E w \in WorkerIds : wpc[w] = "get" /\ wpc'[w] = "got"

\* No task is in the queue twice, and no queued task is held by a worker.
QueuedOnce ==
  /\ \A i \in 1..Len(queue), j \in 1..Len(queue) :
       (i # j /\ queue[i] # STOP_MESSAGE) => queue[i] # queue[j]
  /\ \A w \in WorkerIds :
       wtask[w] \in TaskIds => wtask[w] \notin QueuedTasks(queue)

\* C15: tasks are taken from the queue in the order they were admitted: a put
\* places a task behind every task already queued and a get takes the oldest
\* message, so that of two queued tasks the one inserted first is dequeued
\* first, for any number of workers and producers.
C15_Fifo ==
  /\ []QueuedOnce
  /\ [][DequeueHead]_vars
  /\ [][EnqueueTail]_vars

\* Two producers: the task of the second call was inserted first and a worker
\* has dequeued it, while the task of the first call, inserted later, is
\* still queued.
C15_Witness ==
  /\ queue = <<1>>
  /\ \E w \in WorkerIds : wpc[w] = "got" /\ wtask[w] = 2

\* ----------------------------------------------------------------------- C18
\* C18: Start propagates the thread-creation error only if no worker could
\* be created: a Start that raises has added no worker.
C18_RaisesOnlyIfNone ==
  [][\A c \in Callers :
       (StartSpawn(c) /\ start_failed') => StartAdded = {}]_vars

\* ----------------------------------------------------------------------- C19
\* What AddTask does after a failed push, for each CPU sample and each outcome
\* of worker.start(): a thread is started only if live < max_threads, CPU < 90
\* and the creation succeeds, and it is then entered in the maps; otherwise
\* no thread is started and the call goes on (inline, blocking put or Full)
\* without raising the spawn error.  The live set is as before in both cases.
GrowOnFull ==
  \A c \in Callers, sample \in CpuSamples, spawns \in BOOLEAN :
    (cpc[c] = "full" /\ AddTaskFull(c, sample, spawns)) =>
      /\ lock = c
      /\ workers' = workers /\ workers_ro_copy' = workers_ro_copy
      /\ nextw' # nextw =>
           /\ PoolLen < max_threads
           /\ CPUUsage(sample) < CpuLimit
           /\ spawns
           /\ nextw' = nextw + 1
           /\ cpc'[c] = "add_reg"
      /\ (CPUUsage(sample) >= CpuLimit \/ PoolLen >= max_threads \/ ~spawns) =>
           /\ nextw' = nextw
           /\ cpc'[c] \in {"inline", "block", "Full"}

\* AddTask gets to its except clause only by a non-blocking push that failed
\* on a full queue, and enters a worker in the maps only after it has started
\* one there: one worker, and then the push is tried again.
OnePerFailedPush ==
  \A c \in Callers :
    /\ (cpc[c] # "full" /\ cpc'[c] = "full") =>
         cpc[c] = "try" /\ Len(queue) = max_threads
    /\ (cpc[c] # "add_reg" /\ cpc'[c] = "add_reg") => cpc[c] = "full"
    /\ (cpc[c] = "add_reg" /\ cpc'[c] # "add_reg") => AddTaskRegister(c)
    /\ AddTaskRegister(c) =>
         /\ Spawned \notin workers
         /\ workers' = workers \cup {Spawned}
         /\ workers_ro_copy' = workers'
         /\ cpc'[c] = "try"

\* No other step of AddTask starts a thread or changes the live set.
OnlyOnFull ==
  (workers' # workers \/ workers_ro_copy' # workers_ro_copy \/ nextw' # nextw) =>
    \A c \in Callers :
      ~(\/ AddTaskCall(c) \/ AddTaskLock(c) \/ AddTaskTry(c) \/ AddTaskBlock(c)
        \/ AddTaskRaise(c) \/ AddTaskInline(c) \/ AddTaskBody(c))

\* C19: AddTask adds a worker only after a failed non-blocking push seen with
\* live count < max_threads and CPUUsage() < 90, one worker per failed push;
\* with CPUUsage() >= 90 or the live count at max_threads it leaves the live
\* set alone, and a spawn failure is swallowed and leaves it alone too.
C19_GrowthRule ==
  /\ [][GrowOnFull]_vars
  /\ [][OnePerFailedPush]_vars
  /\ [][OnlyOnFull]_vars

\* A started pool that Start gave min_threads workers has been grown to
\* max_threads by an AddTask call, which has just entered the worker it
\* started and is about to try its push again, the queue being full still.
C19_Witness ==
  /\ started /\ ~start_failed
  /\ min_threads < max_threads
  /\ PoolLen = max_threads
  /\ Spawned \in workers
  /\ wpc[Spawned] = "get"
  /\ QueueFull
  /\ \E c \in Callers : cpc[c] = "try" /\ lock = c

\* ----------------------------------------------------------------------- C20
\* C20: whenever the pool is unstarted (started is false and no Stop is
\* executing) the live worker set is empty.
C20_UnstartedEmpty ==
  (~started /\ \A c \in Callers : cpc[c] \notin InStop) =>
    (workers = {} /\ workers_ro_copy = {})

\* ----------------------------------------------------------------------- C16
\* Convert of thread c has returned.
ConvertReturned(c) == conv[c].stage = "done" /\ cpc[c] = "idle"

\* ConvertBatch has been invoked exactly once on every batch thread c
\* submitted, and thread c has no batch left to submit.
AllConverted(c) ==
  /\ conv[c].left = 0
  /\ \A t \in conv[c].batches : tasks[t].wruns + tasks[t].cruns = 1

\* C16: Convert blocks until everything is converted: once a Convert has
\* returned, ConvertBatch has been invoked exactly once on each of its
\* batches, also when other Converts share the pool and with size 0; and at
\* the moment it returns from Stop the pool is stopped.
C16_ConvertBlocksUntilDone ==
  /\ [](\A c \in Callers : ConvertReturned(c) => AllConverted(c))
  /\ [][\A c \in Callers :
          (~ConvertReturned(c) /\ ConvertReturned(c)' /\ ~conv[c].empty)
            => ~started']_vars

\* ----------------------------------------------------------------------- C17
\* The workers created so far.
Created == {w \in DOMAIN wpc : wpc[w] # "unborn"}

\* Every task of the scenario has been run by a worker and acknowledged.
AllComplete ==
  /\ \A t \in DOMAIN tasks : tasks[t].wruns = 1
  /\ unfinished = 0

\* C17 as stated: the live worker count reaches 5 and all 6 tasks complete in
\* every interleaving; so once all 6 tasks have completed, 5 workers exist.
C17_GrowsToFive ==
  AllComplete => Cardinality(Created) = GrowthConfig.max_threads

\* Once Start has returned the live count stays between min_threads and
\* max_threads; the queue holds at most max_threads tasks, and no task is run
\* twice or on the producer.
GrowthBounds ==
  /\ (started /\ \A c \in Callers : cpc[c] \notin InStart) =>
       /\ PoolLen >= min_threads /\ PoolLen <= max_threads
       /\ workers = workers_ro_copy
  /\ Len(queue) <= max_threads
  /\ \A t \in DOMAIN tasks : tasks[t].wruns <= 1 /\ tasks[t].cruns = 0

\* A worker beyond the first min_threads is created only by the sixth
\* AddTask, after its push has found all five earlier tasks in the queue: a
\* push fails only on a queue that holds max_threads tasks, none of them
\* begun, and only the sixth push ever fails.
GrowsOnlyWhenFull ==
  /\ (Cardinality(Created') > Cardinality(Created) /\ cpc[1] \notin InStart) =>
       /\ Cardinality(Created') = Cardinality(Created) + 1
       /\ ctask[1] = Producer.left /\ cpc[1] = "full" /\ cpc'[1] = "add_reg"
  /\ (cpc[1] # "full" /\ cpc'[1] = "full") =>
       /\ ctask[1] = Producer.left /\ cpc[1] = "try"
       /\ Len(queue) = max_threads
       /\ \A t \in DOMAIN tasks : tasks[t].wruns = 0

\* C17 amended: the live count stays within min_threads..max_threads and
\* grows only after the sixth push has found the queue full, and all 6 tasks
\* complete, in every fair interleaving.
C17_GrowthScenario ==
  /\ []GrowthBounds
  /\ [][GrowsOnlyWhenFull]_vars
  /\ <>[]AllComplete

\* All 6 tasks have completed and the pool never had more than its two
\* initial workers.
C17_Witness ==
  /\ AllComplete
  /\ Created = {1, 2}
  /\ workers = {1, 2}

\* ----------------------------------------------------------------------- C21
\* The stop messages in the queue.
QueuedSentinels ==
  Cardinality({i \in 1..Len(queue) : queue[i] = STOP_MESSAGE})

\* The workers that have dequeued a stop message and not yet acknowledged it.
SentinelHolders ==
  {w \in WorkerIds : wpc[w] = "got" /\ wtask[w] = STOP_MESSAGE}

\* A stop message exists only while a Stop is executing and only in the hands
\* of a worker that Stop captured; of the captured workers, as many as
\* stop messages were put have taken one, one each: those still to be put,
\* those queued, those held and the captured workers that have exited add up
\* to the number of captured workers.
SentinelsAccounted ==
  /\ (QueuedSentinels > 0 \/ SentinelHolders # {}) =>
       \E c \in Callers : cpc[c] \in InStop
  /\ SentinelHolders \subseteq stop_workers
  /\ \A c \in Callers :
       cpc[c] \in InStop =>
         stop_left + QueuedSentinels + Cardinality(SentinelHolders)
           + Cardinality({w \in stop_workers : wpc[w] = "exited"})
             = Cardinality(stop_workers)

\* A worker that holds a stop message acknowledges it (the unfinished count
\* goes down by one) and exits without running a task, and an exited worker
\* takes no further step.
SentinelStep ==
  \A w \in WorkerIds :
    /\ (w \in SentinelHolders /\ wpc'[w] # wpc[w]) =>
         /\ wpc'[w] = "exited"
         /\ unfinished' = unfinished - 1
         /\ tasks' = tasks
    /\ wpc[w] = "exited" => wpc'[w] = "exited" /\ wtask'[w] = wtask[w]

\* When Stop returns, no stop message is left and every captured worker has
\* exited.
StopLeavesNoSentinel ==
  \A c \in Callers :
    (cpc[c] \in InStop /\ cpc'[c] = "idle") =>
      /\ QueuedSentinels' = 0 /\ SentinelHolders' = {}
      /\ \A w \in stop_workers : wpc[w] = "exited"

\* C21: the stop sentinel is in the queue only while a Stop is executing;
\* Stop enqueues one sentinel per captured worker, a captured worker consumes
\* one sentinel, acknowledges it and exits without executing a further task,
\* and when Stop has returned the queue holds no sentinel.
C21_SentinelProtocol ==
  /\ []SentinelsAccounted
  /\ [][SentinelStep]_vars
  /\ [][StopLeavesNoSentinel]_vars

\* A Stop that captured two workers has put both stop messages: one worker
\* has acknowledged its message and exited, the other holds its message.
C21_Witness ==
  /\ \E c \in Callers : cpc[c] \in InStop
  /\ Cardinality(stop_workers) = 2
  /\ stop_left = 0
  /\ Cardinality(SentinelHolders) = 1
  /\ \E w \in stop_workers : wpc[w] = "exited"

\* ----------------------------------------------------------------------- C22
\* C22: for a pool with max_threads > 0 the queue never holds more than
\* max_threads elements, tasks and stop sentinels together.
C22_QueueWithinCapacity ==
  max_threads > 0 => Len(queue) <= max_threads

\* The queue is full and still holds a task while Stop, which has a sentinel
\* left to put, waits for room, and a producer that called AddTask in
\* blocking mode waits for the lock.
C22_Witness ==
  /\ max_threads > 0
  /\ Len(queue) = max_threads
  /\ QueuedTasks(queue) # {}
  /\ \E c \in Callers : cpc[c] = "stop_put" /\ stop_left > 0
  /\ \E d \in Callers : cpc[d] = "lock" /\ cblocking[d] /\ ~cinline[d]
====
